---- MODULE Spec2Model ----
(***************************************************************************)
(* Process lifecycle manager of the gamex desktop launcher                 *)
(* (src-tauri/src/lib.rs): the ProcessManager registry, the execute_game   *)
(* command, the asynchronous IPFS daemon bootstrap and the kill_all        *)
(* shutdown run by the ExitRequested handler.                              *)
(*                                                                         *)
(* Threads: each element of Launchers is a thread running execute_game     *)
(* calls one after the other, "boot" is the task spawned in setup, and     *)
(* "kill_all" is the event-loop thread running the exit handler.  Every    *)
(* OS call (chmod, spawn, kill, the sidecar invocations) is one step with  *)
(* a nondeterministic outcome; a mutex critical section that only touches  *)
(* the protected field (add_game_process, set_ipfs_process) is one step    *)
(* guarded by the mutex being free, while kill_all, which makes OS calls   *)
(* inside its two critical sections, holds the mutex over several steps.   *)
(***************************************************************************)
EXTENDS Integers, Sequences, FiniteSets, TLC

\* ---------------------------------------------------------------- bounds
\* Total number of execute_game invocations in a run.
MaxCalls == 2

\* ---------------------------------------------------------------- domains
Launchers == {1, 2}
Paths == {"/tmp/game", "/tmp/other"}
\* "unix" stands for the macos and linux builds, whose execute_game branches
\* are the same text and which share kill_all's cfg(unix) branch.
Platforms == {"unix", "windows"}
NoChild == 0
Free == "free"

VARIABLES
    platform,        \* the cfg the binary was built for
    game_processes,  \* ProcessManager.game_processes: Vec<Child> (handle ids)
    ipfs_process,    \* ProcessManager.ipfs_process: Option<CommandChild>
    gameLock,        \* holder of the game_processes mutex
    ipfsLock,        \* holder of the ipfs_process mutex
    procs,           \* every process spawned so far: id -> [kind, path]
    lpc,             \* per launcher: position inside execute_game
    lcall,           \* per launcher: locals of the call in progress
    ncalls,          \* execute_game invocations so far
    launched,        \* execute_game invocations that returned Ok so far
    failed,          \* execute_game invocations that returned Err so far
    bpc,             \* position of the bootstrap task
    bchild,          \* daemon handle held by the bootstrap task
    sidecar_calls,   \* sidecar invocations issued by the bootstrap task
    kpc,             \* position of kill_all
    ki,              \* index of kill_all's loop over game_processes
    kchild,          \* what kill_all's ipfs.take() returned (NoChild: None)
    exits,           \* ExitRequested events delivered so far
    oslog,           \* termination calls issued by kill_all, in order
    drained,         \* game_processes as kill_all found it under the lock
    exitSlot,        \* ipfs_process when the exit signal arrived
    lateRegs         \* handles registered after a drain of their field

vars == <<platform, game_processes, ipfs_process, gameLock, ipfsLock, procs,
          lpc, lcall, ncalls, launched, failed, bpc, bchild, sidecar_calls,
          kpc, ki, kchild, exits, oslog, drained, exitSlot, lateRegs>>

regVars == <<game_processes, ipfs_process, gameLock, ipfsLock>>
launchVars == <<lpc, lcall, ncalls, launched, failed>>
bootVars == <<bpc, bchild, sidecar_calls>>
killVars == <<kpc, ki, kchild, exits, oslog, drained, exitSlot>>

\* ---------------------------------------------------------------- helpers
IsUnix == platform = "unix"

\* The OS gives every live child a distinct process identifier.
PidOf(id) == 7 * id + 3

\* u32::to_string: the decimal digits, most significant first.
RECURSIVE to_string(_)
to_string(n) ==
    IF n < 10 THEN <<n>> ELSE Append(to_string(n \div 10), n % 10)

\* What the kill / taskkill utility reads back from its PID argument.
RECURSIVE ParsePid(_)
ParsePid(s) ==
    IF Len(s) = 0 THEN 0
    ELSE 10 * ParsePid(SubSeq(s, 1, Len(s) - 1)) + s[Len(s)]

Range(s) == {s[i] : i \in 1..Len(s)}

NoCall == [path |-> "", chmod |-> "none", child |-> NoChild]

IPFS_PATH(app_data_dir) == app_data_dir \o "/.ipfs"

\* ---------------------------------------------------------------- Init
\* ProcessManager::new and the state of the threads before they start.
Init ==
    /\ platform \in Platforms
    /\ game_processes = <<>>
    /\ ipfs_process = NoChild
    /\ gameLock = Free
    /\ ipfsLock = Free
    /\ procs = <<>>
    /\ lpc = [l \in Launchers |-> "idle"]
    /\ lcall = [l \in Launchers |-> NoCall]
    /\ ncalls = 0
    /\ launched = 0
    /\ failed = 0
    /\ bpc = "dir"
    /\ bchild = NoChild
    /\ sidecar_calls = <<>>
    /\ kpc = "idle"
    /\ ki = 0
    /\ kchild = NoChild
    /\ exits = 0
    /\ oslog = <<>>
    /\ drained = <<>>
    /\ exitSlot = NoChild
    /\ lateRegs = {}

\* ---------------------------------------------------------------- registry
\* Whether a kill_all has already emptied the field (so that a later
\* registration lands in a field that has been drained).
GameDrained == exits > 1 \/ (exits = 1 /\ kpc # "loop")
IpfsDrained == exits > 1 \/ (exits = 1 /\ kpc \notin {"loop", "lock_ipfs"})

\* Mutant of add_game_process: a path that is already tracked is not pushed.
add_game_process_dedup(child) ==
    /\ gameLock = Free
    /\ game_processes' =
         IF \E i \in 1..Len(game_processes) :
                procs[game_processes[i]].path = procs[child].path
         THEN game_processes
         ELSE Append(game_processes, child)
    /\ lateRegs' = IF GameDrained THEN lateRegs \cup {child} ELSE lateRegs
    /\ UNCHANGED <<ipfs_process, gameLock, ipfsLock>>

\* ProcessManager::add_game_process: lock, push, unlock.
add_game_process(child) ==
    /\ gameLock = Free
    /\ game_processes' = Append(game_processes, child)
    /\ lateRegs' = IF GameDrained THEN lateRegs \cup {child} ELSE lateRegs
    /\ UNCHANGED <<ipfs_process, gameLock, ipfsLock>>

\* Mutant of set_ipfs_process: an occupied slot keeps its handle.
set_ipfs_process_keep_first(child) ==
    /\ ipfsLock = Free
    /\ ipfs_process' = IF ipfs_process = NoChild THEN child ELSE ipfs_process
    /\ lateRegs' = IF IpfsDrained THEN lateRegs \cup {child} ELSE lateRegs
    /\ UNCHANGED <<game_processes, gameLock, ipfsLock>>

\* ProcessManager::set_ipfs_process: lock, overwrite the slot, unlock.
set_ipfs_process(child) ==
    /\ ipfsLock = Free
    /\ ipfs_process' = child
    /\ lateRegs' = IF IpfsDrained THEN lateRegs \cup {child} ELSE lateRegs
    /\ UNCHANGED <<game_processes, gameLock, ipfsLock>>

\* ---------------------------------------------------------------- execute_game
\* Commands are dispatched to the lowest-numbered thread that is not inside
\* a call.  A call starts with its first OS call: chmod on macOS and Linux,
\* the spawn on Windows.
CanBegin(l) ==
    /\ lpc[l] = "idle"
    /\ ncalls < MaxCalls
    /\ \A k \in Launchers : k < l => lpc[k] # "idle"

\* Command::new("chmod").args(["+x", &path]).output().map_err(..)?
\* output() is Err only when chmod cannot be executed; the exit status of
\* a chmod that ran is not looked at.
LaunchChmod(l) ==
    /\ IsUnix
    /\ CanBegin(l)
    /\ ncalls' = ncalls + 1
    /\ \E path \in Paths, out \in {"ok", "nonzero", "noexec"} :
         IF out = "noexec"
         THEN /\ failed' = failed + 1
              /\ UNCHANGED <<lpc, lcall>>
         ELSE /\ lpc' = [lpc EXCEPT ![l] = "spawn"]
              /\ lcall' = [lcall EXCEPT ![l] = [NoCall EXCEPT !.path = path,
                                                              !.chmod = out]]
              /\ UNCHANGED failed
    /\ UNCHANGED <<platform, procs, launched, lateRegs>>
    /\ UNCHANGED regVars /\ UNCHANGED bootVars /\ UNCHANGED killVars

\* Mutant of SpawnResult: the registration is reached whatever spawn returned.
SpawnResult_register(l, path, out) ==
    /\ procs' = IF out = "ok"
                THEN Append(procs, [kind |-> "game", path |-> path])
                ELSE procs
    /\ lcall' = [lcall EXCEPT ![l] =
                   [path |-> path, chmod |-> lcall[l].chmod,
                    child |-> IF out = "ok" THEN Len(procs) + 1 ELSE NoChild]]
    /\ lpc' = [lpc EXCEPT ![l] = "add"]
    /\ UNCHANGED failed

\* The two arms of  .spawn().map_err(|e| format!(..))? : Ok(child) goes on
\* to the registration, Err returns the error string.
SpawnResult(l, path, out) ==
    IF out = "ok"
    THEN /\ procs' = Append(procs, [kind |-> "game", path |-> path])
         /\ lcall' = [lcall EXCEPT ![l] = [path |-> path,
                                           chmod |-> lcall[l].chmod,
                                           child |-> Len(procs) + 1]]
         /\ lpc' = [lpc EXCEPT ![l] = "add"]
         /\ UNCHANGED failed
    ELSE /\ lpc' = [lpc EXCEPT ![l] = "idle"]
         /\ lcall' = [lcall EXCEPT ![l] = NoCall]
         /\ failed' = failed + 1
         /\ UNCHANGED procs

\* Command::new(&path).spawn(): the first step of the call on Windows.
LaunchSpawn(l) ==
    /\ \/ /\ lpc[l] = "spawn"
          /\ UNCHANGED ncalls
          /\ \E out \in {"ok", "fail"} :
               SpawnResult(l, lcall[l].path, out)
       \/ /\ ~IsUnix
          /\ CanBegin(l)
          /\ ncalls' = ncalls + 1
          /\ \E path \in Paths, out \in {"ok", "fail"} :
               SpawnResult(l, path, out)
    /\ UNCHANGED <<platform, launched, lateRegs>>
    /\ UNCHANGED regVars /\ UNCHANGED bootVars /\ UNCHANGED killVars

\* process_manager.add_game_process(child); Ok(format!("Game launched: ..."))
LaunchAdd(l) ==
    /\ lpc[l] = "add"
    /\ add_game_process(lcall[l].child)
    /\ lpc' = [lpc EXCEPT ![l] = "idle"]
    /\ lcall' = [lcall EXCEPT ![l] = NoCall]
    /\ launched' = launched + 1
    /\ UNCHANGED <<platform, procs, ncalls, failed>>
    /\ UNCHANGED bootVars /\ UNCHANGED killVars

execute_game(l) == LaunchChmod(l) \/ LaunchSpawn(l) \/ LaunchAdd(l)

\* ---------------------------------------------------------------- bootstrap
AppDataDir == "/appdata"

\* Mutant of cors_commands: the two rules in the other order.
cors_commands_swapped ==
    << <<"config", "API.HTTPHeaders.Access-Control-Allow-Methods">>,
       <<"config", "API.HTTPHeaders.Access-Control-Allow-Origin">> >>

\* The fixed, ordered list of configuration sub-invocations.
cors_commands ==
    << <<"config", "API.HTTPHeaders.Access-Control-Allow-Origin">>,
       <<"config", "API.HTTPHeaders.Access-Control-Allow-Methods">> >>

\* env.insert("IPFS_PATH", ipfs_path)
Env == [IPFS_PATH |-> IPFS_PATH(AppDataDir)]

\* app_data_dir().unwrap(); if !exists { create_dir_all(..).unwrap() }
\* An unwrap on Err panics the task, which ends it.
BootDir ==
    /\ bpc = "dir"
    /\ \E out \in {"exists", "created", "error"} :
         bpc' = IF out = "error" THEN "panicked" ELSE "config"
    /\ UNCHANGED <<platform, procs, bchild, sidecar_calls, lateRegs>>
    /\ UNCHANGED regVars /\ UNCHANGED launchVars /\ UNCHANGED killVars

\* shell.sidecar("ipfs").unwrap().args(rule).envs(env.clone()).output()
\*     .await.unwrap()
\* for the next rule of cors_commands: a sub-invocation that runs and exits
\* non-zero is Ok(output), whose status is not looked at; one that cannot be
\* executed is Err, and the unwrap panics the task.
BootConfig ==
    /\ bpc = "config"
    /\ Len(sidecar_calls) < Len(cors_commands)
    /\ \E out \in {"ok", "nonzero", "noexec"} :
         /\ sidecar_calls' = Append(sidecar_calls,
                [args |-> cors_commands[Len(sidecar_calls) + 1],
                 env |-> Env, out |-> out])
         /\ bpc' = IF out = "noexec" THEN "panicked"
                   ELSE IF Len(sidecar_calls) + 1 = Len(cors_commands)
                        THEN "spawn" ELSE "config"
    /\ UNCHANGED <<platform, procs, bchild, lateRegs>>
    /\ UNCHANGED regVars /\ UNCHANGED launchVars /\ UNCHANGED killVars

\* Mutant of BootSpawn: a failed spawn is tried again.
BootSpawn_retry ==
    /\ bpc = "spawn"
    /\ \E out \in {"ok", "fail"} :
         /\ sidecar_calls' = Append(sidecar_calls,
                [args |-> <<"daemon", "--init">>, env |-> Env, out |-> out])
         /\ IF out = "ok"
            THEN /\ procs' = Append(procs, [kind |-> "daemon", path |-> "ipfs"])
                 /\ bchild' = Len(procs) + 1
                 /\ bpc' = "set"
            ELSE UNCHANGED <<procs, bchild, bpc>>
    /\ UNCHANGED <<platform, lateRegs>>
    /\ UNCHANGED regVars /\ UNCHANGED launchVars /\ UNCHANGED killVars

\* match sidecar_command.spawn() { Ok((_rx, child)) => .., Err(e) => println }
BootSpawn ==
    /\ bpc = "spawn"
    /\ \E out \in {"ok", "fail"} :
         /\ sidecar_calls' = Append(sidecar_calls,
                [args |-> <<"daemon", "--init">>, env |-> Env, out |-> out])
         /\ IF out = "ok"
            THEN /\ procs' = Append(procs, [kind |-> "daemon", path |-> "ipfs"])
                 /\ bchild' = Len(procs) + 1
                 /\ bpc' = "set"
            ELSE /\ bpc' = "failed"
                 /\ UNCHANGED <<procs, bchild>>
    /\ UNCHANGED <<platform, lateRegs>>
    /\ UNCHANGED regVars /\ UNCHANGED launchVars /\ UNCHANGED killVars

\* process_manager.set_ipfs_process(child)
BootSet ==
    /\ bpc = "set"
    /\ set_ipfs_process(bchild)
    /\ bpc' = "done"
    /\ bchild' = NoChild
    /\ UNCHANGED <<platform, procs, sidecar_calls>>
    /\ UNCHANGED launchVars /\ UNCHANGED killVars

Bootstrap == BootDir \/ BootConfig \/ BootSpawn \/ BootSet

\* ---------------------------------------------------------------- kill_all
OsCall(op, h, args, out) == [op |-> op, h |-> h, args |-> args, out |-> out]

\* Mutant of ExitRequested: the guard is dropped before the loop runs.
ExitRequested_unlocked ==
    /\ kpc = "idle"
    /\ exits = 0
    /\ gameLock = Free
    /\ exits' = exits + 1
    /\ drained' = game_processes
    /\ exitSlot' = ipfs_process
    /\ ki' = 1
    /\ kpc' = "loop"
    /\ UNCHANGED <<platform, procs, game_processes, ipfs_process, gameLock,
                   ipfsLock, kchild, oslog, lateRegs>>
    /\ UNCHANGED launchVars /\ UNCHANGED bootVars

\* RunEvent::ExitRequested: the handler calls process_manager.kill_all(),
\* which starts with  if let Ok(mut processes) = self.game_processes.lock()
\* The handler never prevents the exit, so the event loop delivers the event
\* once in a run.
ExitRequested ==
    /\ kpc = "idle"
    /\ exits = 0
    /\ gameLock = Free
    /\ exits' = exits + 1
    /\ gameLock' = "kill_all"
    /\ drained' = game_processes
    /\ exitSlot' = ipfs_process
    /\ ki' = 1
    /\ kpc' = "loop"
    /\ UNCHANGED <<platform, procs, game_processes, ipfs_process, ipfsLock,
                   kchild, oslog, lateRegs>>
    /\ UNCHANGED launchVars /\ UNCHANGED bootVars

\* Mutant of KillGame: the loop is left at the first kill that fails.
KillGame_abort ==
    /\ kpc = "loop"
    /\ ki <= Len(game_processes)
    /\ \E out \in {"ok", "fail"} :
         /\ oslog' = Append(oslog,
                OsCall("child.kill", game_processes[ki], <<>>, out))
         /\ ki' = IF out = "fail" THEN Len(game_processes) + 1 ELSE ki + 1
    /\ UNCHANGED <<platform, procs, kpc, kchild, exits, drained, exitSlot,
                   lateRegs>>
    /\ UNCHANGED regVars /\ UNCHANGED launchVars /\ UNCHANGED bootVars

\* One iteration of  for child in processes.iter_mut() { child.kill() .. } :
\* the result of kill() is only logged.
KillGame ==
    /\ kpc = "loop"
    /\ ki <= Len(game_processes)
    /\ \E out \in {"ok", "fail"} :
         oslog' = Append(oslog, OsCall("child.kill", game_processes[ki], <<>>, out))
    /\ ki' = ki + 1
    /\ UNCHANGED <<platform, procs, kpc, kchild, exits, drained, exitSlot,
                   lateRegs>>
    /\ UNCHANGED regVars /\ UNCHANGED launchVars /\ UNCHANGED bootVars

\* Mutant of KillClear: the guard of the game collection is not dropped.
KillClear_hold ==
    /\ kpc = "loop"
    /\ ki > Len(game_processes)
    /\ game_processes' = <<>>
    /\ kpc' = "lock_ipfs"
    /\ UNCHANGED <<platform, procs, ipfs_process, gameLock, ipfsLock, ki,
                   kchild, exits, oslog, drained, exitSlot, lateRegs>>
    /\ UNCHANGED launchVars /\ UNCHANGED bootVars

\* Mutant of KillClear: the collection is not cleared.
KillClear_keep ==
    /\ kpc = "loop"
    /\ ki > Len(game_processes)
    /\ gameLock' = Free
    /\ kpc' = "lock_ipfs"
    /\ UNCHANGED <<platform, procs, game_processes, ipfs_process, ipfsLock, ki,
                   kchild, exits, oslog, drained, exitSlot, lateRegs>>
    /\ UNCHANGED launchVars /\ UNCHANGED bootVars

\* processes.clear(); and the guard is dropped at the end of the if-let.
KillClear ==
    /\ kpc = "loop"
    /\ ki > Len(game_processes)
    /\ game_processes' = <<>>
    /\ gameLock' = Free
    /\ kpc' = "lock_ipfs"
    /\ UNCHANGED <<platform, procs, ipfs_process, ipfsLock, ki, kchild, exits,
                   oslog, drained, exitSlot, lateRegs>>
    /\ UNCHANGED launchVars /\ UNCHANGED bootVars

\* Mutant of KillTakeIpfs: the handle is read through the guard, not taken.
KillTakeIpfs_peek ==
    /\ kpc = "lock_ipfs"
    /\ ipfsLock = Free
    /\ IF ipfs_process = NoChild
       THEN /\ kpc' = "idle"
            /\ UNCHANGED <<ipfsLock, kchild>>
       ELSE /\ kpc' = "graceful"
            /\ ipfsLock' = "kill_all"
            /\ kchild' = ipfs_process
    /\ UNCHANGED <<platform, procs, game_processes, ipfs_process, gameLock, ki,
                   exits, oslog, drained, exitSlot, lateRegs>>
    /\ UNCHANGED launchVars /\ UNCHANGED bootVars

\* Mutant of KillTakeIpfs: the termination sequence runs on an empty slot too.
KillTakeIpfs_always ==
    /\ kpc = "lock_ipfs"
    /\ ipfsLock = Free
    /\ ipfs_process' = NoChild
    /\ kpc' = "graceful"
    /\ ipfsLock' = "kill_all"
    /\ kchild' = ipfs_process
    /\ UNCHANGED <<platform, procs, game_processes, gameLock, ki, exits, oslog,
                   drained, exitSlot, lateRegs>>
    /\ UNCHANGED launchVars /\ UNCHANGED bootVars

\* if let Ok(mut ipfs) = self.ipfs_process.lock() { if let Some(child) =
\* ipfs.take() { let pid = child.pid(); .. } } : with an empty slot the guard
\* is dropped at once and kill_all returns.
KillTakeIpfs ==
    /\ kpc = "lock_ipfs"
    /\ ipfsLock = Free
    /\ ipfs_process' = NoChild
    /\ IF ipfs_process = NoChild
       THEN /\ kpc' = "idle"
            /\ UNCHANGED <<ipfsLock, kchild>>
       ELSE /\ kpc' = "graceful"
            /\ ipfsLock' = "kill_all"
            /\ kchild' = ipfs_process
    /\ UNCHANGED <<platform, procs, game_processes, gameLock, ki, exits, oslog,
                   drained, exitSlot, lateRegs>>
    /\ UNCHANGED launchVars /\ UNCHANGED bootVars

\* Mutant of KillGraceful: the forced kill is a fallback taken only when the
\* graceful request did not report success.
KillGraceful_fallback ==
    /\ kpc = "graceful"
    /\ \E out \in {"ok", "nonzero", "noexec"} :
         /\ oslog' =
              IF IsUnix
              THEN Append(oslog, OsCall("kill", NoChild,
                              <<"-TERM", to_string(PidOf(kchild))>>, out))
              ELSE LET req == OsCall("taskkill", NoChild,
                              <<"/PID", to_string(PidOf(kchild)), "/T">>, out)
                   IN IF out = "ok"
                      THEN oslog \o <<req, OsCall("sleep", NoChild, <<>>, "ok")>>
                      ELSE Append(oslog, req)
         /\ kpc' = IF out = "ok" THEN "idle" ELSE "force"
         /\ ipfsLock' = IF out = "ok" THEN Free ELSE ipfsLock
    /\ UNCHANGED <<platform, procs, game_processes, ipfs_process, gameLock, ki,
                   kchild, exits, drained, exitSlot, lateRegs>>
    /\ UNCHANGED launchVars /\ UNCHANGED bootVars

\* Mutant of KillGraceful: the Windows branch never pauses.
KillGraceful_nopause ==
    /\ kpc = "graceful"
    /\ \E out \in {"ok", "nonzero", "noexec"} :
         oslog' =
           IF IsUnix
           THEN Append(oslog, OsCall("kill", NoChild,
                                     <<"-TERM", to_string(PidOf(kchild))>>, out))
           ELSE Append(oslog, OsCall("taskkill", NoChild,
                           <<"/PID", to_string(PidOf(kchild)), "/T">>, out))
    /\ kpc' = "force"
    /\ UNCHANGED <<platform, procs, ki, kchild, exits, drained, exitSlot,
                   lateRegs>>
    /\ UNCHANGED regVars /\ UNCHANGED launchVars /\ UNCHANGED bootVars

\* #[cfg(unix)] Command::new("kill").args(["-TERM", &pid.to_string()]).output()
\* #[cfg(windows)] Command::new("taskkill").args(["/PID", &pid.to_string(),
\* "/T"]).output(), followed by a 500 ms sleep when the status is success.
\* Every outcome is only logged.
KillGraceful ==
    /\ kpc = "graceful"
    /\ \E out \in {"ok", "nonzero", "noexec"} :
         oslog' =
           IF IsUnix
           THEN Append(oslog, OsCall("kill", NoChild,
                                     <<"-TERM", to_string(PidOf(kchild))>>, out))
           ELSE LET req == OsCall("taskkill", NoChild,
                                  <<"/PID", to_string(PidOf(kchild)), "/T">>, out)
                IN IF out = "ok"
                   THEN oslog \o <<req, OsCall("sleep", NoChild, <<>>, "ok")>>
                   ELSE Append(oslog, req)
    /\ kpc' = "force"
    /\ UNCHANGED <<platform, procs, ki, kchild, exits, drained, exitSlot,
                   lateRegs>>
    /\ UNCHANGED regVars /\ UNCHANGED launchVars /\ UNCHANGED bootVars

\* let _ = child.kill(); then the guard is dropped and kill_all returns
\* (kchild keeps naming the handle that was taken).
KillForce ==
    /\ kpc = "force"
    /\ oslog' = Append(oslog, OsCall("child.kill", kchild, <<>>, "ignored"))
    /\ ipfsLock' = Free
    /\ kpc' = "idle"
    /\ UNCHANGED <<platform, procs, game_processes, ipfs_process, gameLock, ki,
                   kchild, exits, drained, exitSlot, lateRegs>>
    /\ UNCHANGED launchVars /\ UNCHANGED bootVars

kill_all ==
    ExitRequested \/ KillGame \/ KillClear \/ KillTakeIpfs \/ KillGraceful
    \/ KillForce

\* ---------------------------------------------------------------- spec
Next ==
    \/ \E l \in Launchers : execute_game(l)
    \/ Bootstrap
    \/ kill_all

Spec == Init /\ [][Next]_vars

\* ---------------------------------------------------------------- observations
Spawned == 1..Len(procs)
Games == {h \in Spawned : procs[h].kind = "game"}
Daemons == {h \in Spawned : procs[h].kind = "daemon"}

\* Handles the registry holds.
Registry ==
    Range(game_processes) \cup
    (IF ipfs_process = NoChild THEN {} ELSE {ipfs_process})

\* Game handles that add_game_process has been called with.
RegisteredGames == {h \in Games : \A l \in Launchers : lcall[l].child # h}

\* Positions of oslog holding a direct kill() on handle h.
KillsOn(h) == {i \in 1..Len(oslog) : oslog[i].op = "child.kill" /\ oslog[i].h = h}
\* Positions of oslog holding an external termination request.
Requests == {i \in 1..Len(oslog) : oslog[i].op \in {"kill", "taskkill"}}
\* Processes that received no termination attempt of any kind.
Unattempted ==
    {h \in Spawned :
        /\ KillsOn(h) = {}
        /\ \A i \in Requests : ParsePid(oslog[i].args[2]) # PidOf(h)}

BootEnded == bpc \in {"done", "failed", "panicked"}
ShutdownReturned == exits = 1 /\ kpc = "idle"
Quiescent ==
    /\ ShutdownReturned
    /\ BootEnded
    /\ \A l \in Launchers : lpc[l] = "idle"

\* ---------------------------------------------------------------- claims

\* C1: as long as no shutdown has started, the game collection holds exactly
\* one handle per execute_game call that returned Ok, all distinct, whatever
\* the bootstrap task is doing and whether or not paths repeat.
C1_CountEqualsLaunches ==
    exits = 0 =>
        /\ Len(game_processes) = launched
        /\ Cardinality(Range(game_processes)) = launched
        /\ Range(game_processes) = RegisteredGames

\* C1 witness: two launches of the same path have succeeded while the
\* bootstrap has spawned the daemon and not yet registered it.
C1_Witness ==
    /\ exits = 0
    /\ launched = 2
    /\ Len(game_processes) = 2
    /\ procs[game_processes[1]].path = procs[game_processes[2]].path
    /\ bpc = "set"

\* C2: a registered game handle has one of two fates.  Registered before
\* kill_all locked the collection: it is gone from the collection and got
\* exactly one kill attempt in that shutdown.  Registered after kill_all
\* cleared the collection: it is in the collection and got no kill attempt.
\* Outside kill_all's critical section no handle is both kill-attempted and
\* in the collection, and none is out of the collection without an attempt.
C2_RaceHasTwoOutcomes ==
    gameLock = Free =>
        \A h \in RegisteredGames :
            /\ Cardinality(KillsOn(h)) <= 1
            /\ (h \in Range(game_processes)) <=> (KillsOn(h) = {})
            /\ exits = 1 =>
                 /\ (h \in lateRegs) <=> (h \in Range(game_processes))
                 /\ (h \notin lateRegs) <=> (h \in Range(drained))

\* C2 witness: shutdown has returned; one launch registered before the drain
\* and was kill-attempted, another registered after it and is the only
\* handle in the collection.
C2_Witness ==
    /\ ShutdownReturned
    /\ Len(drained) = 1
    /\ Cardinality(KillsOn(drained[1])) = 1
    /\ Len(game_processes) = 1
    /\ game_processes[1] \in lateRegs
    /\ KillsOn(game_processes[1]) = {}

\* C3 (as stated): once shutdown has returned and every launch and the
\* bootstrap have finished, at most one spawned process is left without a
\* termination attempt.
C3_AtMostOneLeak == Quiescent => Cardinality(Unattempted) <= 1

\* C3 (amended): once shutdown has returned and every launch and the
\* bootstrap have finished, the processes left without a termination attempt
\* are exactly the handles whose registration completed after kill_all had
\* drained their field, and exactly the handles still in the registry; there
\* is one per late registration, so as many as the launches plus the daemon.
C3_LeaksAreLateRegistrations ==
    Quiescent =>
        /\ Unattempted = lateRegs
        /\ Unattempted = Registry
        /\ Cardinality(Unattempted) <= launched + Cardinality(Daemons)

\* C3 witness: everything has finished and two processes, a game and the
\* daemon, were registered too late and never got a termination attempt.
C3_Witness ==
    /\ Quiescent
    /\ Cardinality(Unattempted) >= 2
    /\ Unattempted \cap Games # {}
    /\ Unattempted \cap Daemons # {}

\* C4 (as stated, in its final-state form): in a run in which the bootstrap
\* has spawned the daemon and the exit handler has run kill_all to its
\* return, once the bootstrap has finished the daemon handle has received
\* the forced kill.
C4_DaemonAlwaysForceKilled ==
    (ShutdownReturned /\ BootEnded) =>
        \A d \in Daemons : KillsOn(d) # {}

\* Positions of oslog holding a POSIX graceful-termination request.
TermRequests == {i \in 1..Len(oslog) : oslog[i].op = "kill"}

\* C5: on a POSIX build, when kill_all has taken a daemon handle with process
\* identifier P out of the slot, it issues exactly one external request, it
\* is  kill -TERM <P>, and only after it the direct kill on that handle,
\* exactly once and whatever the request's outcome was; before the request
\* nothing has been done to the handle.
C5_TermThenForcedKill ==
    (IsUnix /\ kchild # NoChild) =>
        /\ Requests = TermRequests
        /\ \A i \in TermRequests :
             /\ oslog[i].args[1] = "-TERM"
             /\ Len(oslog[i].args) = 2
             /\ ParsePid(oslog[i].args[2]) = PidOf(kchild)
        /\ \A i \in KillsOn(kchild), j \in 1..Len(oslog) :
             oslog[j].op # "child.kill" => (j \in TermRequests /\ j < i)
        /\ \A i \in KillsOn(kchild) : TermRequests # {}
        /\ kpc = "graceful" => (TermRequests = {} /\ KillsOn(kchild) = {})
        /\ kpc = "force" =>
             (Cardinality(TermRequests) = 1 /\ KillsOn(kchild) = {})
        /\ kpc = "idle" =>
             /\ Cardinality(TermRequests) = 1
             /\ KillsOn(kchild) = {Len(oslog)}
             /\ TermRequests = {Len(oslog) - 1}

\* C5 witness: POSIX build, the kill utility could not be executed, and the
\* forced kill on the daemon handle followed it.
C5_Witness ==
    /\ IsUnix
    /\ kpc = "idle"
    /\ kchild # NoChild
    /\ Len(oslog) >= 2
    /\ oslog[Len(oslog) - 1].op = "kill"
    /\ oslog[Len(oslog) - 1].out = "noexec"
    /\ ParsePid(oslog[Len(oslog) - 1].args[2]) = PidOf(kchild)
    /\ oslog[Len(oslog)] = OsCall("child.kill", kchild, <<>>, "ignored")

\* The handles of the direct kill() calls in oslog, in order.
RECURSIVE KilledSeq(_)
KilledSeq(log) ==
    IF log = <<>> THEN <<>>
    ELSE IF log[1].op = "child.kill"
         THEN <<log[1].h>> \o KilledSeq(Tail(log))
         ELSE KilledSeq(Tail(log))

\* C6: if, when the exit signal arrived, the daemon was registered and k
\* launches had succeeded, and nothing registered during the shutdown, then
\* at kill_all's return it has made k game kill attempts (one per handle, in
\* order), then the daemon's graceful request targeting its pid, then the
\* forced kill on its handle, and nothing else but the Windows pause; the
\* game collection and the daemon slot are both empty.
C6_EndToEnd ==
    (/\ ShutdownReturned
     /\ exitSlot # NoChild
     /\ lateRegs = {}
     /\ launched = Len(drained)) =>
        LET k == Len(drained) IN
        /\ KilledSeq(oslog) = Append(drained, exitSlot)
        /\ \A i \in 1..k : oslog[i].op = "child.kill"
        /\ Len(oslog) >= k + 2
        /\ oslog[k + 1].op = (IF IsUnix THEN "kill" ELSE "taskkill")
        /\ ParsePid(oslog[k + 1].args[2]) = PidOf(exitSlot)
        /\ oslog[Len(oslog)].op = "child.kill"
        /\ \A i \in (k + 2)..(Len(oslog) - 1) : oslog[i].op = "sleep"
        /\ game_processes = <<>>
        /\ ipfs_process = NoChild

\* C6 witness: the bootstrap completed, one launch succeeded, then the exit
\* signal; kill_all has returned after one game kill and the daemon sequence.
C6_Witness ==
    /\ ShutdownReturned
    /\ exitSlot # NoChild
    /\ lateRegs = {}
    /\ launched = 1
    /\ Len(drained) = 1
    /\ Len(oslog) >= 3
    /\ Registry = {}

\* C7 (as stated): on a POSIX build a call whose chmod step failed, by not
\* being executable or by running and reporting failure, never gets to its
\* spawn step (and so never to the registration).
C7_ChmodFailureStopsLaunch ==
    IsUnix =>
        \A l \in Launchers :
            lpc[l] \in {"spawn", "add"} => lcall[l].chmod = "ok"

\* A step in which a launcher's spawn call returned Err: the launcher was at
\* its spawn (on Windows: began a call) and no process came into being.
SpawnFailedStep ==
    /\ procs' = procs
    /\ \/ \E l \in Launchers : lpc[l] = "spawn" /\ lpc'[l] # "spawn"
       \/ ~IsUnix /\ ncalls' = ncalls + 1

\* C8: the step in which the spawn of execute_game fails returns Err to the
\* caller, leads to no add_game_process call, and changes neither the game
\* collection, the daemon slot and their mutexes, nor any other launch, the
\* bootstrap task or kill_all; and no step of a call other than its
\* registration changes the registry.
C8_SpawnFailureLeavesRegistry ==
    [][/\ SpawnFailedStep =>
            /\ failed' = failed + 1
            /\ launched' = launched
            /\ \A l \in Launchers : lpc'[l] = "add" => lpc[l] = "add"
            /\ \A l \in Launchers : lpc'[l] # lpc[l] => lpc'[l] = "idle"
            /\ \A l \in Launchers : lcall'[l] # lcall[l] => lcall'[l] = NoCall
            /\ UNCHANGED <<game_processes, ipfs_process, gameLock, ipfsLock>>
            /\ UNCHANGED <<bootVars, killVars, lateRegs>>
       /\ ((lpc' # lpc \/ ncalls' # ncalls) /\ launched' = launched) =>
            UNCHANGED <<game_processes, ipfs_process, gameLock, ipfsLock>>
      ]_vars

\* C8 witness: on Windows (where only the spawn can fail a launch) one call
\* has returned Err while the registry holds a game and the daemon.
C8_Witness ==
    /\ ~IsUnix
    /\ failed = 1
    /\ launched = 1
    /\ Len(game_processes) = 1
    /\ ipfs_process # NoChild

\* C9: kill_all's loop makes exactly one kill attempt on every handle it
\* found in the collection, in order, whichever attempts fail: while the
\* loop runs the attempts are the handles before the loop index, and once
\* the loop is over every drained handle has exactly one attempt.  The daemon
\* sequence runs after it: a daemon that was in the slot when the exit signal
\* arrived has, at kill_all's return, its request and its forced kill after
\* all game kills.
C9_KillLoopVisitsAll ==
    exits = 1 =>
        /\ kpc = "loop" =>
             KilledSeq(oslog) = SubSeq(drained, 1, ki - 1)
        /\ kpc # "loop" =>
             /\ \A h \in Range(drained) : Cardinality(KillsOn(h)) = 1
             /\ SubSeq(KilledSeq(oslog), 1, Len(drained)) = drained
        /\ (kpc = "idle" /\ exitSlot # NoChild) =>
             /\ KillsOn(exitSlot) = {Len(oslog)}
             /\ Requests = {Len(drained) + 1}

\* C9 witness: kill_all has returned; the first of two game kills failed,
\* the second was still attempted, and the daemon sequence ran.
C9_Witness ==
    /\ ShutdownReturned
    /\ Len(drained) = 2
    /\ oslog[1].out = "fail"
    /\ oslog[2].op = "child.kill"
    /\ oslog[2].h = drained[2]
    /\ exitSlot # NoChild
    /\ KillsOn(exitSlot) # {}

\* C10: when kill_all found k game handles and an empty daemon slot (no
\* daemon was registered before it took the slot), then at its return it has
\* made exactly k calls, all of them game kills, one per handle: no graceful
\* request, no pause and no forced kill.
C10_NoDaemonNoDaemonCommands ==
    (/\ ShutdownReturned
     /\ \A d \in Daemons : d = bchild \/ d \in lateRegs) =>
        /\ Len(oslog) = Len(drained)
        /\ KilledSeq(oslog) = drained
        /\ Requests = {}
        /\ \A i \in 1..Len(oslog) : oslog[i].op = "child.kill"
        /\ \A d \in Daemons : KillsOn(d) = {}

\* C10 witness: kill_all has returned after killing two games, the daemon
\* spawn having failed.
C10_Witness ==
    /\ ShutdownReturned
    /\ bpc = "failed"
    /\ Len(drained) = 2
    /\ Len(oslog) = 2

\* C12: the bootstrap task issues the allowed-origins configuration, then
\* the allowed-methods configuration, and the daemon spawn only after both
\* have completed (having run, whatever their exit status); every one of
\* the invocations carries the same environment, whose IPFS_PATH is the
\* .ipfs directory under the application data directory.
C12_ConfigBeforeSpawn ==
    /\ Len(sidecar_calls) <= 3
    /\ Len(sidecar_calls) >= 1 =>
         sidecar_calls[1].args =
             <<"config", "API.HTTPHeaders.Access-Control-Allow-Origin">>
    /\ Len(sidecar_calls) >= 2 =>
         /\ sidecar_calls[2].args =
                <<"config", "API.HTTPHeaders.Access-Control-Allow-Methods">>
         /\ sidecar_calls[1].out \in {"ok", "nonzero"}
    /\ Len(sidecar_calls) >= 3 =>
         /\ sidecar_calls[3].args = <<"daemon", "--init">>
         /\ sidecar_calls[2].out \in {"ok", "nonzero"}
    /\ bpc = "spawn" => Len(sidecar_calls) = 2
    /\ Daemons # {} => Len(sidecar_calls) = 3
    /\ \A i, j \in 1..Len(sidecar_calls) :
         /\ sidecar_calls[i].env = sidecar_calls[j].env
         /\ sidecar_calls[i].env.IPFS_PATH = "/appdata/.ipfs"

\* C12 witness: the daemon has been spawned after the two configuration
\* invocations, the second of which reported failure.
C12_Witness ==
    /\ Len(sidecar_calls) = 3
    /\ sidecar_calls[2].out = "nonzero"
    /\ sidecar_calls[3].out = "ok"
    /\ bpc = "set"

\* C13 (as stated): a configuration sub-invocation that failed, by not being
\* executable or by running and reporting failure, does not end the
\* bootstrap task: it goes on to the remaining steps.
C13_ConfigFailureNonFatal ==
    \A i \in 1..Len(sidecar_calls) :
        (/\ sidecar_calls[i].args[1] = "config"
         /\ sidecar_calls[i].out \in {"nonzero", "noexec"}) =>
            bpc # "panicked"

\* The daemon spawn invocation returned Err.
DaemonSpawnFailed ==
    \E i \in 1..Len(sidecar_calls) :
        sidecar_calls[i].args[1] = "daemon" /\ sidecar_calls[i].out = "fail"

\* C14: once the daemon spawn has failed the bootstrap task is over, with no
\* further invocation and no set_ipfs_process call: no daemon process
\* exists, the slot is and stays empty, and kill_all, whenever it runs,
\* finds the slot empty and issues nothing but game kills.
C14_SpawnFailureLeavesSlotEmpty ==
    DaemonSpawnFailed =>
        /\ bpc = "failed"
        /\ ~ENABLED Bootstrap
        /\ sidecar_calls[Len(sidecar_calls)].out = "fail"
        /\ Daemons = {}
        /\ bchild = NoChild
        /\ ipfs_process = NoChild
        /\ ipfsLock = Free
        /\ kchild = NoChild
        /\ Requests = {}
        /\ \A i \in 1..Len(oslog) :
             oslog[i].op = "child.kill" /\ oslog[i].h \in Games

\* C14 witness: the daemon spawn failed, a launch succeeded all the same,
\* and kill_all has returned having killed only that game.
C14_Witness ==
    /\ DaemonSpawnFailed
    /\ ShutdownReturned
    /\ launched = 1
    /\ Len(drained) = 1
    /\ Len(oslog) = 1

\* Positions of oslog holding a Windows tree-kill request.
TaskkillRequests == {i \in 1..Len(oslog) : oslog[i].op = "taskkill"}
\* Positions of oslog holding the pause.
Pauses == {i \in 1..Len(oslog) : oslog[i].op = "sleep"}

\* C15 (as stated): on a Windows build, once kill_all has issued the
\* tree-kill request for the daemon it took, a pause follows the request
\* whatever the request reported, and precedes the forced kill.
C15_PauseAfterEveryTaskkill ==
    (~IsUnix /\ kchild # NoChild /\ kpc \in {"force", "idle"}) =>
        \A i \in TaskkillRequests :
            i + 1 <= Len(oslog) /\ oslog[i + 1].op = "sleep"

\* C15 (amended): on a Windows build, kill_all issues for the daemon it took
\* exactly one request,  taskkill /PID <P> /T  with P the handle's pid;
\* the pause follows it exactly when the request reported success (not when
\* it exited non-zero or could not be executed); the forced kill on the
\* handle comes last, in every case.
C15_PauseOnlyAfterSuccess ==
    (~IsUnix /\ kchild # NoChild /\ kpc \in {"force", "idle"}) =>
        /\ Cardinality(TaskkillRequests) = 1
        /\ Requests = TaskkillRequests
        /\ \A i \in TaskkillRequests :
             /\ oslog[i].args[1] = "/PID"
             /\ ParsePid(oslog[i].args[2]) = PidOf(kchild)
             /\ oslog[i].args[3] = "/T"
             /\ Len(oslog[i].args) = 3
             /\ i = Len(drained) + 1
             /\ (oslog[i].out = "ok") <=> (Pauses = {i + 1})
             /\ (oslog[i].out # "ok") <=> (Pauses = {})
             /\ \A j \in KillsOn(kchild) : i < j /\ \A q \in Pauses : q < j
        /\ kpc = "force" => KillsOn(kchild) = {}
        /\ kpc = "idle" => KillsOn(kchild) = {Len(oslog)}

\* C15 witness: Windows build, the tree-kill request reported success, the
\* pause followed and then the forced kill.
C15_Witness ==
    /\ ~IsUnix
    /\ kpc = "idle"
    /\ kchild # NoChild
    /\ Len(oslog) >= 3
    /\ oslog[Len(oslog) - 2].op = "taskkill"
    /\ oslog[Len(oslog) - 2].out = "ok"
    /\ oslog[Len(oslog) - 1].op = "sleep"
    /\ oslog[Len(oslog)] = OsCall("child.kill", kchild, <<>>, "ignored")

\* kill_all is inside, or about to make, one of its OS calls on a game
\* handle / on the daemon (kill, the external request, the pause).
InGameKill == kpc = "loop" /\ ki <= Len(game_processes)
InDaemonKill == kpc \in {"graceful", "force"}

\* C16 (as stated): no registry mutex is held while a kill, an external
\* termination request, the pause or a spawn is in progress, so a launcher
\* that has reached add_game_process and a bootstrap that has reached
\* set_ipfs_process never wait for the length of an OS call.
C16_NoLockAcrossOsCalls ==
    /\ InGameKill => gameLock = Free
    /\ InDaemonKill => ipfsLock = Free
    /\ \A l \in Launchers : lpc[l] = "add" => ENABLED LaunchAdd(l)
    /\ bpc = "set" => ENABLED BootSet

\* C17 (as stated): kill_all empties the whole registry at one instant, the
\* one at which it locks the game collection: the daemon it terminates is
\* the one that was in the slot at that instant, and between the drain of
\* the game collection and the drain of the slot the collection is still
\* empty and the slot unchanged.
C17_DrainIsAtomic ==
    exits = 1 =>
        /\ kpc = "lock_ipfs" =>
             (game_processes = <<>> /\ ipfs_process = exitSlot)
        /\ kpc \in {"graceful", "force", "idle"} => kchild = exitSlot

\* ---------------------------------------------------------------- second set
\* A second call of set_ipfs_process, with the handle of another daemon
\* process, after the bootstrap task has made the first.
SetDaemonAgain ==
    /\ bpc = "done"
    /\ Cardinality({h \in 1..Len(procs) : procs[h].kind = "daemon"}) = 1
    /\ procs' = Append(procs, [kind |-> "daemon", path |-> "ipfs"])
    /\ set_ipfs_process(Len(procs) + 1)
    /\ UNCHANGED <<platform, bpc, bchild, sidecar_calls>>
    /\ UNCHANGED launchVars /\ UNCHANGED killVars

\* The state in which the bootstrap task has prepared the directory and both
\* configuration sub-invocations have succeeded: the daemon spawn is next.
InitConfigured ==
    /\ platform \in Platforms
    /\ game_processes = <<>>
    /\ ipfs_process = NoChild
    /\ gameLock = Free
    /\ ipfsLock = Free
    /\ procs = <<>>
    /\ lpc = [l \in Launchers |-> "idle"]
    /\ lcall = [l \in Launchers |-> NoCall]
    /\ ncalls = 0
    /\ launched = 0
    /\ failed = 0
    /\ bpc = "spawn"
    /\ bchild = NoChild
    /\ sidecar_calls =
         [i \in 1..Len(cors_commands) |->
             [args |-> cors_commands[i], env |-> Env, out |-> "ok"]]
    /\ kpc = "idle"
    /\ ki = 0
    /\ kchild = NoChild
    /\ exits = 0
    /\ oslog = <<>>
    /\ drained = <<>>
    /\ exitSlot = NoChild
    /\ lateRegs = {}

NextSetTwice ==
    \/ \E l \in Launchers : execute_game(l)
    \/ BootSpawn
    \/ BootSet
    \/ SetDaemonAgain
    \/ kill_all

SpecSetTwice == InitConfigured /\ [][NextSetTwice]_vars

\* Daemon handles that were put in the slot and are neither in it any more
\* nor the one kill_all took out of it: the ones a later call overwrote.
Overwritten ==
    {d \in Daemons : d # bchild /\ d # ipfs_process /\ d # kchild}

\* A step that is a call of set_ipfs_process.
SetStep == ipfs_process' # ipfs_process /\ ipfs_process' # NoChild

\* C11: once set_ipfs_process has been called twice, the slot holds the
\* second handle (until kill_all takes it) and never the first again; the
\* overwritten first handle has received no termination of any kind, neither
\* a request on its pid nor a kill; and a call of set_ipfs_process leaves the
\* game collection, both mutexes and the record of termination calls as they
\* were and puts the newest daemon handle in the slot.
C11_SecondSetReplaces ==
    /\ [](Cardinality(Daemons) = 2 =>
            LET first == CHOOSE d \in Daemons : \A e \in Daemons : d <= e
                second == CHOOSE d \in Daemons : \A e \in Daemons : e <= d
            IN /\ ipfs_process # first
               /\ ipfs_process = second
                    \/ (ipfs_process = NoChild /\ kchild = second)
               /\ Overwritten \subseteq {first}
               /\ \A d \in Overwritten : d \in Unattempted)
    /\ [][SetStep =>
            /\ game_processes' = game_processes
            /\ gameLock' = gameLock /\ ipfsLock' = ipfsLock
            /\ oslog' = oslog
            /\ procs'[ipfs_process'].kind = "daemon"
            /\ \A h \in 1..Len(procs') :
                 procs'[h].kind = "daemon" => h <= ipfs_process']_vars

\* C11 witness: set_ipfs_process has been called twice while a game was
\* registered; the slot holds the second handle and the first, overwritten,
\* has not been terminated although kill_all has run since.
C11_Witness ==
    /\ Cardinality(Daemons) = 2
    /\ ipfs_process # NoChild
    /\ \A d \in Daemons : d <= ipfs_process
    /\ Cardinality(Overwritten) = 1
    /\ Overwritten \subseteq Unattempted
    /\ launched = 1
    /\ ShutdownReturned

\* ---------------------------------------------------------------- second exit
\* The exit handler runs kill_all a second time, after the first has
\* returned.
ExitRequestedAgain ==
    /\ kpc = "idle"
    /\ exits = 1
    /\ gameLock = Free
    /\ exits' = exits + 1
    /\ gameLock' = "kill_all"
    /\ drained' = game_processes
    /\ exitSlot' = ipfs_process
    /\ ki' = 1
    /\ kpc' = "loop"
    /\ UNCHANGED <<platform, procs, game_processes, ipfs_process, ipfsLock,
                   kchild, oslog, lateRegs>>
    /\ UNCHANGED launchVars /\ UNCHANGED bootVars

NextExitTwice ==
    \/ \E l \in Launchers : execute_game(l)
    \/ BootSpawn
    \/ BootSet
    \/ kill_all
    \/ ExitRequestedAgain

SpecExitTwice == InitConfigured /\ [][NextExitTwice]_vars

\* Positions of oslog holding an external termination request on handle h.
RequestsOn(h) == {i \in Requests : ParsePid(oslog[i].args[2]) = PidOf(h)}

\* C18: over any run, with kill_all invoked once or twice, a game handle
\* receives at most one kill attempt and a daemon handle at most one
\* graceful request and one forced kill; and every call the second
\* invocation issues is on a handle that was registered after the first
\* invocation had drained its field, so that with no such registration the
\* second invocation issues no game kill, no request and no forced kill.
C18_KillAllIdempotent ==
    /\ [](\A h \in Spawned :
            /\ Cardinality(KillsOn(h)) <= 1
            /\ Cardinality(RequestsOn(h)) <= 1
            /\ h \in Games => RequestsOn(h) = {})
    /\ [][(exits = 2 /\ oslog' # oslog) =>
            /\ lateRegs # {}
            /\ \A i \in (Len(oslog) + 1)..Len(oslog') :
                 \/ oslog'[i].op = "child.kill" /\ oslog'[i].h \in lateRegs
                 \/ /\ oslog'[i].op \in {"kill", "taskkill", "sleep"}
                    /\ kchild \in lateRegs]_vars

\* C18 witness: POSIX build; the first kill_all killed one game and the
\* daemon, nothing was registered afterwards, and the second kill_all has
\* returned: the record holds the three calls of the first and no more.
C18_Witness ==
    /\ IsUnix
    /\ exits = 2
    /\ kpc = "idle"
    /\ lateRegs = {}
    /\ launched = 1
    /\ kchild # NoChild
    /\ Len(oslog) = 3
    /\ Cardinality(KillsOn(kchild)) = 1
    /\ Registry = {}

\* ---------------------------------------------------------------- progress
\* The steps of a kill_all that has been entered.
KillSteps == KillGame \/ KillClear \/ KillTakeIpfs \/ KillGraceful \/ KillForce

\* The operations that take a lock, from the state in which the bootstrap
\* task is about to spawn the daemon.
NextFair ==
    \/ \E l \in Launchers : execute_game(l)
    \/ BootSpawn
    \/ BootSet
    \/ kill_all

\* Scheduling: every OS kill and external command returns, so a kill_all that
\* has been entered keeps taking steps; a thread blocked on a mutex is woken
\* once the mutex stays free.
SpecFair ==
    /\ InitConfigured
    /\ [][NextFair]_vars
    /\ WF_vars(KillSteps)
    /\ \A l \in Launchers : WF_vars(LaunchAdd(l))
    /\ WF_vars(BootSet)

\* C19: the lock of the game collection and the lock of the daemon slot are
\* never held at the same time; and, every OS call returning, kill_all does
\* not stay entered forever (it returns), no launch stays forever waiting in
\* add_game_process, and the bootstrap does not stay forever waiting in
\* set_ipfs_process (each acquires its lock).
C19_LocksDisjointAndProgress ==
    /\ [](~(gameLock # Free /\ ipfsLock # Free))
    /\ []<>(kpc = "idle")
    /\ \A l \in Launchers : []<>(lpc[l] # "add")
    /\ []<>(bpc # "set")

\* C19 witness: kill_all holds the lock of the game collection and has
\* killed a game; a launch is waiting in add_game_process for that lock and
\* the bootstrap is about to call set_ipfs_process.
C19_Witness ==
    /\ kpc = "loop"
    /\ gameLock # Free
    /\ ki > 1
    /\ \E l \in Launchers : lpc[l] = "add"
    /\ bpc = "set"

====
